---- MODULE Spec2Model ----
(***************************************************************************)
(* One-way calendar synchronisation (Office 365 -> Google) of pim-tools.   *)
(* The model follows src/files/calendar_sync.py: the two calendar          *)
(* wrappers, their fingerprints, the diff/apply loop of CalendarSync.run   *)
(* and the thread + sched.scheduler pair that drives it.                   *)
(*                                                                         *)
(* Strings are sequences of one-character strings, so that '|'.join() is   *)
(* a real concatenation.  An optional value (a Python value that may be    *)
(* None, or a dict key that may be absent) is a sequence of length 0 or 1. *)
(***************************************************************************)
EXTENDS FiniteSets, Integers, Sequences, TLC

\* ------------------------------------------------------------------------
\* Program constants
\* ------------------------------------------------------------------------
SYNC_INTERVAL_SEC == 300

\* days before and after now that a cycle synchronises
PAST_EVENTS == 7

FUTURE_EVENTS == 28

\* datetimes are counted in hours
HoursPerDay == 24

\* ------------------------------------------------------------------------
\* Bounds of the model
\* ------------------------------------------------------------------------
\* longest list of events held by the source calendar
MaxSrc == 2
\* longest list of events held by the target calendar before the first cycle
MaxTgt == 2
\* provider calls that may raise in one behaviour
MaxFailures == 1
\* events another client may remove from the target calendar
MaxRemovals == 1
\* the time since the start of a cycle is tracked up to this many seconds,
\* short of a third tick: beyond, a cycle is late whatever the amount
MaxElapsed == 449

\* events in one page of the Google calendar's answers
PageSize == 1

\* longest subject or body of an event in FpSpec
FpMaxLen == 1

\* longest list of events of either calendar in SchedSpec and CadenceSpec
SchedMax == 2

\* longest list of events of either calendar in OddSpec
OddMax == 1

\* longest YouTube playlist in YtSpec
YtMax == 2

\* refresh tokens the authorization server hands out in OauthSpec
MaxTokens == 3

\* the latest hour that utcnow() reads at the start of a cycle
MaxClock == 1

\* the clock advances in steps of half an interval
TickSec == SYNC_INTERVAL_SEC \div 2

\* ------------------------------------------------------------------------
\* Python values
\* ------------------------------------------------------------------------
None == << >>

Some(x) == << x >>

\* the empty str ''
EmptyStr == << >>

\* bool(x) of an optional str: None and '' are falsy
Truthy(x) == x # None /\ x[1] # EmptyStr

Digits == << "0", "1", "2", "3", "4", "5", "6", "7", "8", "9" >>

TwoDigits(n) == << Digits[(n \div 10) + 1], Digits[(n % 10) + 1] >>

\* An aware datetime is [t |-> its instant, in hours of UTC since the
\* midnight of the day the program is started on, off |-> UTC offset of its
\* tzinfo in hours].  astimezone() keeps the instant and replaces the tzinfo.
AsTimezone(dt, tz) == [t |-> dt.t, off |-> tz]

\* A naive datetime is the hour its wall clock shows, counted from the same
\* midnight.
\* datetime.astimezone(tz) of a naive datetime: the wall clock is taken to
\* show the host's local time, whose offset from UTC is local.
NaiveAsTimezone(wall, local, tz) == [t |-> wall - local, off |-> tz]

\* rrule(freq=DAILY, dtstart=start, until=end): start and every whole day
\* after it up to end, as naive datetimes; its k-th occurrence and its length
RruleAt(start, k) == start + (k - 1) * HoursPerDay

RruleLen(start, end) == (end - start) \div HoursPerDay + 1

Rrule(start, end) ==
    [ k \in 1..RruleLen(start, end) |-> RruleAt(start, k) ]

\* ExchangeCalendar.events(): the start and end of the k-th calendar.view()
\* it asks for, one per zip(timerange, timerange[1:]); self.tz is the host's
\* zone
ExchangeViewAt(start, tz, k) ==
    [ start |-> NaiveAsTimezone(RruleAt(start, k), tz, tz),
      end   |-> NaiveAsTimezone(RruleAt(start, k + 1), tz, tz) ]

\* the number of views: zip() stops with the shorter of its two arguments
ExchangeViewCount(start, end) == RruleLen(start, end) - 1

ExchangeViews(start, end, tz) ==
    [ k \in 1..ExchangeViewCount(start, end) |-> ExchangeViewAt(start, tz, k) ]

\* GoogleCalendar.events(): timeMin and timeMax of its list() requests, as
\* the instants that the isoformat() strings denote; self.tz is the host's zone
GoogleList(start, end, tz) ==
    [ timeMin |-> NaiveAsTimezone(start, tz, tz),
      timeMax |-> NaiveAsTimezone(end, tz, tz) ]

\* datetime.isoformat(): the wall-clock day and hour in the datetime's own
\* zone, followed by the zone's offset ("28T11+01" stands for 11:00:00+01:00
\* on the 28th day after the one the program is started on).
IsoFormat(dt) ==
    LET wall == dt.t + dt.off
    IN  TwoDigits(wall \div HoursPerDay) \o << "T" >>
            \o TwoDigits(wall % HoursPerDay) \o << "+" >> \o TwoDigits(dt.off)

DigitValue(c) == CHOOSE d \in 0..9 : Digits[d + 1] = c

\* the instant that an isoformat() string denotes
IsoInstant(s) ==
    (10 * DigitValue(s[1]) + DigitValue(s[2])) * HoursPerDay
        + (10 * DigitValue(s[4]) + DigitValue(s[5]))
        - (10 * DigitValue(s[7]) + DigitValue(s[8]))

RECURSIVE Join(_)
\* '|'.join(parts)
Join(parts) ==
    IF Len(parts) = 0 THEN EmptyStr
    ELSE IF Len(parts) = 1 THEN parts[1]
    ELSE parts[1] \o << "|" >> \o Join(Tail(parts))

\* hash(str): equal strings have equal hashes; the value is opaque and is
\* only ever used as a dict key.
hash(s) == << "hash", s >>

\* '|'.join() of a tuple holding None raises TypeError
TypeError == << "TypeError" >>

\* ------------------------------------------------------------------------
\* dict, with insertion order: a sequence of <<key, value>> pairs
\* ------------------------------------------------------------------------
DictKeys(d) == { d[i][1] : i \in 1..Len(d) }

DictHas(d, k) == k \in DictKeys(d)

DictGet(d, k) == d[CHOOSE i \in 1..Len(d) : d[i][1] = k][2]

\* d[k] = v that keeps the value an existing key has
DictPutFirst(d, k, v) ==
    IF k \in DictKeys(d) THEN d ELSE Append(d, << k, v >>)

\* d[k] = v: an existing key keeps its position and takes the new value
DictPut(d, k, v) ==
    IF DictHas(d, k)
    THEN [ i \in 1..Len(d) |-> IF d[i][1] = k THEN << k, v >> ELSE d[i] ]
    ELSE Append(d, << k, v >>)

\* del d[k] that leaves the dict as it is
DictDelNothing(d, k) == d

\* del d[k]
DictDel(d, k) == SelectSeq(d, LAMBDA p : p[1] # k)

\* ------------------------------------------------------------------------
\* ExchangeCalendar (the source)
\* ------------------------------------------------------------------------
\* An Exchange calendar item is
\*   [start, end : aware datetime, subject, text_body : optional str,
\*    is_all_day : BOOLEAN].

\* ExchangeCalendar.events(), the try branch: the items of the daily views,
\* without the all-day ones.
ExchangeEvents(items) == SelectSeq(items, LAMBDA e : ~ e.is_all_day)

\* calendar.view(start, end): the items that overlap the range
CalendarView(items, view) ==
    SelectSeq(items, LAMBDA e : e.start.t < view.end.t /\ e.end.t > view.start.t)

\* the locals of ExchangeCalendar.events() before its first view
NoViews == [ events |-> << >>, count |-> 0 ]

\* ExchangeCalendar.events(), one turn of its for loop: the view of the next
\* range, events.extend() with its items that are not all-day, and whether
\* the loop ends there
ExchangeTurn(items, start, end, tz, viewed) ==
    LET k    == viewed.count + 1
        view == ExchangeViewAt(start, tz, k)
    IN  [ events  |-> viewed.events \o ExchangeEvents(CalendarView(items, view)),
          count   |-> k,
          returns |-> k >= ExchangeViewCount(start, end) ]

RECURSIVE ExchangeDrain(_, _, _, _, _)
\* ExchangeCalendar.events(), the for loop from its k-th turn on: what the
\* views from the k-th to the last add to the list it returns
ExchangeDrain(items, start, end, tz, k) ==
    IF k > ExchangeViewCount(start, end)
    THEN << >>
    ELSE ExchangeEvents(CalendarView(items, ExchangeViewAt(start, tz, k)))
             \o ExchangeDrain(items, start, end, tz, k + 1)

\* fingerprint() without the conversion to the local zone
ExchangeFingerprintOwnZone(event, tz) ==
    IF event.subject = None
    THEN TypeError
    ELSE hash(Join(<< IsoFormat(event.start),
                      IsoFormat(event.end),
                      event.subject[1],
                      IF Truthy(event.text_body) THEN event.text_body[1]
                                                 ELSE EmptyStr >>))

\* ExchangeCalendar.fingerprint()
ExchangeFingerprint(event, tz) ==
    IF event.subject = None
    THEN TypeError
    ELSE hash(Join(<< IsoFormat(AsTimezone(event.start, tz)),
                      IsoFormat(AsTimezone(event.end, tz)),
                      event.subject[1],
                      IF Truthy(event.text_body) THEN event.text_body[1]
                                                 ELSE EmptyStr >>))

\* ------------------------------------------------------------------------
\* GoogleCalendar (the target)
\* ------------------------------------------------------------------------
\* A Google event resource is
\*   [id, start, end : optional str ('dateTime', absent on an all-day event),
\*    summary, description : optional str].

\* GoogleCalendar.fingerprint()
GoogleFingerprint(event) ==
    IF event.start = None \/ event.end = None \/ event.summary = None
    THEN TypeError
    ELSE hash(Join(<< event.start[1],
                      event.end[1],
                      event.summary[1],
                      IF event.description = None THEN EmptyStr
                                                  ELSE event.description[1] >>))

\* create() that never sends the description
GoogleCreateBodyNoDescription(start, end, subject, description) ==
    [ start       |-> Some(IsoFormat(start)),
      end         |-> Some(IsoFormat(end)),
      summary     |-> subject,
      description |-> None ]

\* GoogleCalendar.create(): the body of the insert request
GoogleCreateBody(start, end, subject, description) ==
    [ start       |-> Some(IsoFormat(start)),
      end         |-> Some(IsoFormat(end)),
      summary     |-> subject,
      description |-> IF Truthy(description) THEN description ELSE None ]

\* events().insert(): the provider stores the body under a fresh id
GoogleInsert(items, body, id) ==
    Append(items, [ id          |-> id,
                    start       |-> body.start,
                    end         |-> body.end,
                    summary     |-> body.summary,
                    description |-> body.description ])

GoogleIds(items) == { items[i].id : i \in 1..Len(items) }

\* events().delete(): the provider drops the event with that id
GoogleRemove(items, id) == SelectSeq(items, LAMBDA e : e.id # id)

\* events().list(timeMin=..., timeMax=...): the events of the calendar that
\* end after timeMin and start before timeMax, in the calendar's order.  An
\* all-day event carries dates; the one of the model lies on the day the
\* program is started on, inside every window.
GoogleListed(items, list) ==
    SelectSeq(items, LAMBDA e :
        \/ e.start = None
        \/ e.end = None
        \/ /\ IsoInstant(e.start[1]) < list.timeMax.t
           /\ IsoInstant(e.end[1]) > list.timeMin.t)

\* ------------------------------------------------------------------------
\* CalendarSync
\* ------------------------------------------------------------------------
RECURSIVE DictFromPairs(_, _)
\* the dict comprehension of event_map(), over <<fingerprint, event>> pairs
DictFromPairs(d, pairs) ==
    IF Len(pairs) = 0 THEN d
    ELSE DictFromPairs(DictPut(d, Head(pairs)[1], Head(pairs)[2]), Tail(pairs))

\* CalendarSync.event_map(): events is the optional list that
\* calendar.events() returned and fps[i] the fingerprint of its i-th item.
\* Iterating None raises TypeError, and so does a fingerprint() that
\* raises; otherwise the value is the dict.
event_map(events, fps) ==
    IF events = None
    THEN [ raised |-> TRUE, value |-> << >> ]
    ELSE IF \E i \in 1..Len(fps) : fps[i] = TypeError
    THEN [ raised |-> TRUE, value |-> << >> ]
    ELSE [ raised |-> FALSE,
           value  |-> DictFromPairs(<< >>,
                        [ i \in 1..Len(fps) |-> << fps[i], events[1][i] >> ]) ]

\* the fingerprints of a list of events, as a set
SourceFps(items, tz) ==
    { ExchangeFingerprint(items[i], tz) : i \in 1..Len(items) }

TargetFps(items) == { GoogleFingerprint(items[i]) : i \in 1..Len(items) }

\* the create() call without astimezone(self.source_calendar.tz)
CreateArgsNaive(source_event, tz) ==
    [ start       |-> source_event.start,
      end         |-> source_event.end,
      subject     |-> source_event.subject,
      description |-> IF Truthy(source_event.text_body)
                      THEN source_event.text_body ELSE None ]

\* the keyword arguments of the create() call of run(), lines 208-213
CreateArgs(source_event, tz) ==
    [ start       |-> AsTimezone(source_event.start, tz),
      end         |-> AsTimezone(source_event.end, tz),
      subject     |-> source_event.subject,
      description |-> IF Truthy(source_event.text_body)
                      THEN source_event.text_body ELSE None ]

\* create() and delete() sent to self.source_calendar
ApplyReceiverSource == "source"

\* the calendar object that run() sends create() and delete() to
ApplyReceiver == "target"

\* enter() that puts the event into the queue twice
EnterTwice(q, delay) == q \o << delay, delay >>

\* sched.scheduler: the queue holds, for each pending event, the time left
\* until it is due; enter() keeps it ordered by time, first in first out
\* among equal times.
Enter(q, delay) ==
    LET before == SelectSeq(q, LAMBDA d : d <= delay)
        after  == SelectSeq(q, LAMBDA d : d > delay)
    IN  before \o << delay >> \o after

Min(a, b) == IF a < b THEN a ELSE b

Max(a, b) == IF a > b THEN a ELSE b

\* events().list(pageToken=...).execute(): the provider answers with the
\* next PageSize events of its list and, unless the list ends there, with
\* the token of the following page (the number of events already served)
GooglePage(items, page_token) ==
    LET from == IF page_token = None THEN 0 ELSE page_token[1]
        upto == Min(from + PageSize, Len(items))
    IN  [ items         |-> SubSeq(items, from + 1, upto),
          nextPageToken |-> IF upto < Len(items) THEN Some(upto) ELSE None ]

\* the locals of events() before its first request
NoPaging == [ events |-> << >>, page_token |-> None ]

\* a turn of the loop of events() that returns whatever the page carries
GoogleTurnOnePage(items, paging) ==
    LET event_list == GooglePage(items, paging.page_token)
    IN  [ events     |-> paging.events \o event_list.items,
          page_token |-> event_list.nextPageToken,
          returns    |-> TRUE ]

\* GoogleCalendar.events(), one turn of its while loop: the request for the
\* page of page_token, events.extend(), the token of the next page, and
\* whether the loop returns there
GoogleTurn(items, paging) ==
    LET event_list == GooglePage(items, paging.page_token)
    IN  [ events     |-> paging.events \o event_list.items,
          page_token |-> event_list.nextPageToken,
          returns    |-> event_list.nextPageToken = None ]

\* ------------------------------------------------------------------------
\* The calendars the model starts from
\* ------------------------------------------------------------------------
Utc(h) == [t |-> h, off |-> 0]

\* 10:00-11:00 "a", with an empty body
EvA == [ start |-> Utc(10), end |-> Utc(11), subject |-> Some(<< "a" >>),
         text_body |-> Some(EmptyStr), is_all_day |-> FALSE ]

\* the same appointment a second time, with no body at all
EvA2 == [ start |-> Utc(10), end |-> Utc(11), subject |-> Some(<< "a" >>),
          text_body |-> None, is_all_day |-> FALSE ]

\* 14:00-15:00 "b", body "n"
EvB == [ start |-> Utc(14), end |-> Utc(15), subject |-> Some(<< "b" >>),
         text_body |-> Some(<< "n" >>), is_all_day |-> FALSE ]

\* an all-day event
EvDay == [ start |-> Utc(0), end |-> Utc(0), subject |-> Some(<< "d" >>),
           text_body |-> None, is_all_day |-> TRUE ]

\* an appointment without a subject
EvNoSubject == [ start |-> Utc(12), end |-> Utc(13), subject |-> None,
                 text_body |-> None, is_all_day |-> FALSE ]

\* the hour at which the window of a cycle started at Epoch ends, as the
\* host's zone shifts it
LateHour(tz) == FUTURE_EVENTS * HoursPerDay - tz

\* an appointment with an empty body that starts where that window ends: the
\* window of a later hour holds it
EvLate(tz) ==
    [ start |-> Utc(LateHour(tz)), end |-> Utc(LateHour(tz) + 1),
      subject |-> Some(<< "l" >>), text_body |-> Some(EmptyStr),
      is_all_day |-> FALSE ]

\* appointments with a subject
PlainSourcePool == { EvA, EvA2, EvB, EvDay }

SourcePool == PlainSourcePool \cup { EvNoSubject }

\* the Google event that create() makes of a source event
GoogleImage(source_event, tz, id) ==
    LET args == CreateArgs(source_event, tz)
    IN  GoogleInsert(<< >>, GoogleCreateBody(args.start, args.end,
                               args.subject, args.description), id)[1]

\* 09:00-10:00 "o", present at the target only
GoogleOld(tz, id) ==
    [ id |-> id, start |-> Some(IsoFormat(AsTimezone(Utc(9), tz))),
      end |-> Some(IsoFormat(AsTimezone(Utc(10), tz))),
      summary |-> Some(<< "o" >>), description |-> None ]

\* an all-day event of the target: 'start' and 'end' carry 'date' only
GoogleDay(id) ==
    [ id |-> id, start |-> None, end |-> None,
      summary |-> Some(<< "d" >>), description |-> None ]

\* an event of the target only that starts where the window of a cycle
\* started at Epoch ends
GoogleLate(tz, id) ==
    [ id |-> id, start |-> Some(IsoFormat(AsTimezone(Utc(LateHour(tz)), tz))),
      end |-> Some(IsoFormat(AsTimezone(Utc(LateHour(tz) + 1), tz))),
      summary |-> Some(<< "o" >>), description |-> None ]

\* events of the target with 'dateTime' in start and end
PlainTargetPool(tz) ==
    { GoogleImage(EvA, tz, 1), GoogleOld(tz, 3), GoogleOld(tz, 4) }

TargetPool(tz) ==
    PlainTargetPool(tz) \cup { GoogleLate(tz, 2), GoogleDay(5) }

\* the hour that utcnow() reads when the program is started at the earliest
Epoch == 0

\* the first id the provider hands out: the events it holds at the start
\* have smaller ones
FirstNewId == 6

\* UTC offsets of the host's local zone, in hours
TzOffsets == { 0, 1 }

\* the lists of at most n distinct elements of S
ListsOf(S, n) ==
    { s \in UNION { [1..k -> S] : k \in 0..n } :
        \A i, j \in 1..Len(s) : i # j => s[i] # s[j] }

\* ------------------------------------------------------------------------
\* tools/youtube_dl.py
\* ------------------------------------------------------------------------
\* playlistItems().list(pageToken=...).execute(): the next PageSize items of
\* the playlist and, unless the playlist ends there, the token of the
\* following page (the number of items already served)
PlaylistPage(playlist, page_token) ==
    LET from == IF page_token = None THEN 0 ELSE page_token[1]
        upto == Min(from + PageSize, Len(playlist))
    IN  [ items         |-> SubSeq(playlist, from + 1, upto),
          nextPageToken |-> IF upto < Len(playlist) THEN Some(upto) ELSE None ]

\* YouTube.playlist_items(), one turn of its while loop: the request for the
\* page of page_token, items.extend(), the token of the next page, and
\* whether the loop returns there
PlaylistTurn(playlist, paged) ==
    LET response == PlaylistPage(playlist, paged.page_token)
    IN  [ items      |-> paged.items \o response.items,
          page_token |-> response.nextPageToken,
          returns    |-> response.nextPageToken = None ]

\* playlistItems().delete(id=...): the playlist without the item of that id
PlaylistDelete(playlist, id) ==
    SelectSeq(playlist, LAMBDA item : item.id # id)

\* exit codes of the download command
ReturnCodes == { 0, 1 }

\* subprocess.run() that was not given check=True
CheckIgnored(returncode) == FALSE

\* subprocess.run(..., check=True) raises CalledProcessError on a non-zero
\* exit code
CheckRaises(returncode) == returncode # 0

\* A playlist item is [id |-> the id of the item, videoId |-> the video].
\* A playlist may hold a video twice, as two items.
YtPool == { [ id |-> 1, videoId |-> "a" ],
            [ id |-> 2, videoId |-> "b" ],
            [ id |-> 3, videoId |-> "a" ] }

\* the state before YouTubeDownload(...).run() is called
YtIdle(playlist) ==
    [ pc       |-> "main",
      playlist |-> playlist,
      paged    |-> [ items |-> << >>, page_token |-> None ],
      items    |-> << >>,
      i        |-> 1,
      calls    |-> << >>,
      queue    |-> << >>,
      result   |-> "none" ]

\* ------------------------------------------------------------------------
\* files/config.py and files/google_oauth.py
\* ------------------------------------------------------------------------
\* A config is the dict of the JSON file, its values optional strs (null is
\* None).

\* Config.get(key): dict.get(key, None)
ConfigGet(config, key) ==
    IF DictHas(config, key) THEN DictGet(config, key) ELSE None

\* Config.set() that leaves the dict as it is
ConfigSetNothing(config, key, value) == config

\* Config.set(key, value): self.config[key] = value
ConfigSet(config, key, value) == DictPut(config, key, value)

\* the n-th refresh token of the authorization server
Token(n) == << "t", Digits[n + 1] >>

\* what a token response may carry as its refresh token
Tokens == { None } \cup { Some(Token(n)) : n \in 1..MaxTokens }

\* the config without the key that login() writes
ClientConfig == << << "client_id", Some(<< "c" >>) >> >>

\* config files the program may be started with: no refresh_token, or null,
\* '' or a token, written after or before the other key
ConfigPool ==
    { ClientConfig }
        \cup { Append(ClientConfig, << "refresh_token", v >>) :
                  v \in { None, Some(EmptyStr), Some(Token(1)) } }
        \cup { << << "refresh_token", v >> >> \o ClientConfig :
                  v \in { None, Some(EmptyStr), Some(Token(1)) } }

\* the state before the config file is loaded
OauthIdle(file) ==
    [ pc            |-> "main",
      file          |-> file,
      config        |-> << >>,
      refresh_token |-> None,
      credentials   |-> None,
      stored        |-> None,
      authorized    |-> FALSE,
      refresh_error |-> FALSE ]

\* ------------------------------------------------------------------------
\* State
\* ------------------------------------------------------------------------
VARIABLES
    source,         \* the items of the Office 365 calendar, in view order
    tz,             \* source_calendar.tz, the host's UTC offset
    target,         \* the events of the Google calendar, in list order
    nextId,         \* the id the provider gives to the next inserted event
    pc,             \* where the thread started by @asynchronous stands
    queue,          \* the queue of the sched.scheduler
    inflight,       \* invocations of run() that have not returned
    source_events,  \* run(): the dict of the source
    target_events,  \* run(): the dict of the target, entries are deleted
    idx,            \* run(): position of the running for loop
    fetched,        \* the dict of the target as event_map() returned it
    listed,         \* the list that target_calendar.events() returned
    calls,          \* create()/delete() calls of the current cycle, in order
    ops,            \* <<calendar, method>> pairs invoked so far
    log,            \* LOGGER records of the current cycle
    result,         \* how the current (or last) cycle went
    prevOk,         \* the cycle before the current one returned normally
    prevShared,     \* ... and its list of target events had a fingerprint
                    \*     twice that its source dict did not have
    prevMoved,      \* ... and its window held other events of the two
                    \*     calendars than the window of the current cycle
    failuresLeft,   \* provider calls that may still raise
    removalsLeft,   \* removals another client may still make
    elapsed,        \* seconds since the current cycle started
    window,         \* run(): the UTC hour it read as now, and its start, end
    paging,         \* events() of the target: its events and page_token
    viewed,         \* events() of the source: its events and answered views
    shutdown,       \* whether exit_gracefully() was called, its records, and
                    \* where the main thread stands
    yt,             \* the YouTubeDownload program and its playlist
    oauth           \* a GoogleCredentials object and its config file

vars == << source, tz, target, nextId, pc, queue, inflight, source_events,
           target_events, idx, fetched, listed, calls, ops, log, result, prevOk,
           prevShared, prevMoved, failuresLeft, removalsLeft, elapsed, window, paging, viewed,
           shutdown, yt, oauth >>

\* the state of the two programs that CalendarSync does not touch
others == << yt, oauth >>

\* the state of CalendarSync and of its two calendars
sync == << source, tz, target, nextId, pc, queue, inflight, source_events,
           target_events, idx, fetched, listed, calls, ops, log, result, prevOk,
           prevShared, prevMoved, failuresLeft, removalsLeft, elapsed, window, paging, viewed,
           shutdown >>

provider == << source, tz, target, nextId >>

locals == << source_events, target_events, idx, fetched, listed, window,
            paging, viewed >>

history == << calls, ops, log >>

\* pc is one of
\*   "main"         CalendarSync(...).run() has not been called
\*   "periodic"     periodic() was entered
\*   "fetch_source" "fetch_target" "create_loop" "delete_loop"   inside run()
\*   "sched"        inside scheduler.run(), between two events
\*   "dead"         an exception left the thread's function
\*   "exited"       the process has ended on SIGTERM or SIGINT

\* fingerprints that several of the fetched target events share although
\* the source dict does not have them
SharedOutsideSource(items, src) ==
    { GoogleFingerprint(items[i]) : i \in
        { k \in 1..Len(items) :
            /\ ~ DictHas(src, GoogleFingerprint(items[k]))
            /\ \E j \in 1..Len(items) :
                 j # k /\ GoogleFingerprint(items[j]) = GoogleFingerprint(items[k]) } }

\* the program before CalendarSync(...).run() is called
\* CalendarSync before run() is called
InitCalendarSync ==
    /\ nextId = FirstNewId
    /\ pc = "main"
    /\ queue = << >>
    /\ inflight = 0
    /\ source_events = << >>
    /\ target_events = << >>
    /\ idx = 1
    /\ fetched = << >>
    /\ listed = << >>
    /\ calls = << >>
    /\ ops = { }
    /\ log = { }
    /\ result = "none"
    /\ prevOk = FALSE
    /\ prevShared = FALSE
    /\ prevMoved = FALSE
    /\ failuresLeft = MaxFailures
    /\ removalsLeft = MaxRemovals
    /\ elapsed = 0
    /\ window = [ now |-> Epoch, start |-> Epoch, end |-> Epoch ]
    /\ paging = NoPaging
    /\ viewed = NoViews
    /\ shutdown = [ signalled |-> FALSE, records |-> { }, main |-> "module" ]

InitProgram ==
    /\ InitCalendarSync
    /\ yt = YtIdle(<< >>)
    /\ oauth = OauthIdle(ClientConfig)

Init ==
    /\ tz \in TzOffsets
    /\ source \in ListsOf(PlainSourcePool, MaxSrc)
    /\ target \in ListsOf(PlainTargetPool(tz), MaxTgt)
    /\ InitProgram

\* an exception propagates out of run(), periodic() and the wrapper (or
\* scheduler.run()): nothing catches it and the thread ends
Raise(kind) ==
    /\ pc' = "dead"
    /\ inflight' = inflight - 1
    /\ result' = kind

\* @asynchronous wrapper and the @schedule wrapper up to its call of
\* periodic(): a thread is started, it makes an empty scheduler
Start ==
    /\ pc = "main"
    /\ pc' = "periodic"
    /\ queue' = << >>
    /\ UNCHANGED << others, shutdown, provider, inflight, locals, history, result, prevOk,
                    prevShared, prevMoved, failuresLeft, removalsLeft, elapsed >>

\* run(), lines 196-197: the window around the UTC hour that utcnow() read
Window(now) ==
    [ now   |-> now,
      start |-> now - PAST_EVENTS * HoursPerDay,
      end   |-> now + FUTURE_EVENTS * HoursPerDay ]

\* what the two calendars hold inside a window: the lists that the two
\* events() return for it
Listing(w) ==
    [ source |-> ExchangeDrain(source, w.start, w.end, tz, 1),
      target |-> GoogleListed(target, GoogleList(w.start, w.end, tz)) ]

\* the two windows do not hold the same events
Moved(before, after) == Listing(before) # Listing(after)

\* the hours that utcnow() may read in a cycle when the cycle before read
\* the hour before: the clock does not go back
ClockFrom(before) == before..MaxClock

\* periodic() whose run() starts with the fetch of the target
PeriodicAtTargetFirst(now) ==
    /\ pc = "periodic"
    /\ queue' = Enter(queue, SYNC_INTERVAL_SEC)
    /\ inflight' = inflight + 1
    /\ pc' = "fetch_target"
    /\ window' = Window(now)
    /\ source_events' = << >>
    /\ target_events' = << >>
    /\ fetched' = << >>
    /\ idx' = 1
    /\ calls' = << >>
    /\ log' = { "time_window" }
    /\ prevOk' = (result = "ok")
    /\ prevShared' = (SharedOutsideSource(listed, source_events) # { })
    /\ prevMoved' = Moved(window, Window(now))
    /\ listed' = << >>
    /\ result' = "running"
    /\ elapsed' = 0
    /\ UNCHANGED << others, shutdown, provider, paging, viewed, ops, failuresLeft, removalsLeft >>

\* periodic() when utcnow() reads now: enqueue the follow-up, then call
\* run(), which computes the window and logs it
PeriodicAt(now) ==
    /\ pc = "periodic"
    /\ queue' = Enter(queue, SYNC_INTERVAL_SEC)
    /\ inflight' = inflight + 1
    /\ pc' = "fetch_source"
    /\ window' = Window(now)
    /\ source_events' = << >>
    /\ target_events' = << >>
    /\ fetched' = << >>
    /\ idx' = 1
    /\ calls' = << >>
    /\ log' = { "time_window" }
    /\ prevOk' = (result = "ok")
    /\ prevShared' = (SharedOutsideSource(listed, source_events) # { })
    /\ prevMoved' = Moved(window, Window(now))
    /\ listed' = << >>
    /\ result' = "running"
    /\ elapsed' = 0
    /\ UNCHANGED << others, shutdown, provider, paging, viewed, ops, failuresLeft, removalsLeft >>

\* periodic() whose run() takes up its loops where the cycle before left them
PeriodicResuming ==
  \E now \in ClockFrom(window.now) :
    /\ pc = "periodic"
    /\ queue' = Enter(queue, SYNC_INTERVAL_SEC)
    /\ inflight' = inflight + 1
    /\ pc' = "fetch_source"
    /\ window' = Window(now)
    /\ source_events' = << >>
    /\ target_events' = << >>
    /\ fetched' = << >>
    /\ calls' = << >>
    /\ log' = { "time_window" }
    /\ prevOk' = (result = "ok")
    /\ prevShared' = (SharedOutsideSource(listed, source_events) # { })
    /\ prevMoved' = Moved(window, Window(now))
    /\ listed' = << >>
    /\ result' = "running"
    /\ elapsed' = 0
    /\ UNCHANGED << others, shutdown, provider, paging, viewed, idx, ops, failuresLeft,
                    removalsLeft >>

\* periodic(): utcnow() reads the hour of the cycle before or a later one
Periodic == \E now \in ClockFrom(window.now) : PeriodicAt(now)

\* run(), line 200: event_map(self.source_calendar, start, end), one
\* calendar.view() of ExchangeCalendar.events() at a time; after the last
\* view events() returns and event_map() builds the dict.
\* ExchangeCalendar.events() catches whatever a view raises and calls
\* LOGGER.error with an argument that its message has no placeholder for:
\* logging reports that on stderr and writes no record.  events() then
\* returns None, which event_map() iterates: TypeError.  event_map() never
\* returns None (a dict is not None), so the return of line 201 is not taken.
FetchSource ==
    /\ pc = "fetch_source"
    /\ \E ok \in BOOLEAN :
         /\ ok \/ failuresLeft > 0
         /\ failuresLeft' = IF ok THEN failuresLeft ELSE failuresLeft - 1
         /\ IF ~ ok
            THEN /\ Raise("source_fetch")
                 /\ ops' = ops \cup { << "source", "events" >> }
                 /\ viewed' = NoViews
                 /\ UNCHANGED << source_events, log >>
            ELSE LET turn  == ExchangeTurn(source, window.start, window.end, tz,
                                           viewed)
                     fps   == [ i \in 1..Len(turn.events) |->
                                  ExchangeFingerprint(turn.events[i], tz) ]
                     map   == event_map(Some(turn.events), fps)
                 IN  IF ~ turn.returns
                     THEN /\ viewed' = [ events |-> turn.events,
                                         count  |-> turn.count ]
                          /\ ops' = ops \cup { << "source", "events" >> }
                          /\ UNCHANGED << pc, inflight, result, source_events,
                                          log >>
                     ELSE /\ viewed' = NoViews
                          /\ log' = log \cup { "o365_fetched" }
                          /\ ops' = ops \cup { << "source", "events" >> }
                                        \cup { << "source", "fingerprint" >> :
                                                 i \in 1..Len(fps) }
                          /\ IF map.raised
                             THEN /\ Raise("source_fingerprint")
                                  /\ UNCHANGED source_events
                             ELSE /\ source_events' = map.value
                                  /\ pc' = "fetch_target"
                                  /\ UNCHANGED << inflight, result >>
    /\ UNCHANGED << others, shutdown, provider, paging, queue, target_events, idx,
                    fetched, listed, calls, prevOk, prevShared, prevMoved, removalsLeft,
                    elapsed, window >>

\* run(), line 202: event_map(self.target_calendar, start, end), one
\* request of GoogleCalendar.events() at a time; after the request that
\* carries no next-page token events() returns and event_map() builds the
\* dict.  GoogleCalendar.events() lets the exception of execute() through.
FetchTarget ==
    /\ pc = "fetch_target"
    /\ \E ok \in BOOLEAN :
         /\ ok \/ failuresLeft > 0
         /\ failuresLeft' = IF ok THEN failuresLeft ELSE failuresLeft - 1
         /\ IF ~ ok
            THEN /\ Raise("target_fetch")
                 /\ ops' = ops \cup { << "target", "events" >> }
                 /\ paging' = NoPaging
                 /\ UNCHANGED << target_events, fetched, listed, log >>
            ELSE LET list == GoogleList(window.start, window.end, tz)
                     turn == GoogleTurn(GoogleListed(target, list), paging)
                     fps  == [ i \in 1..Len(turn.events) |->
                                 GoogleFingerprint(turn.events[i]) ]
                     map  == event_map(Some(turn.events), fps)
                 IN  IF ~ turn.returns
                     THEN /\ paging' = [ events     |-> turn.events,
                                         page_token |-> turn.page_token ]
                          /\ ops' = ops \cup { << "target", "events" >> }
                          /\ UNCHANGED << pc, inflight, result, target_events,
                                          fetched, listed, log >>
                     ELSE /\ paging' = NoPaging
                          /\ log' = log \cup { "google_fetched" }
                          /\ ops' = ops \cup { << "target", "events" >> }
                                        \cup { << "target", "fingerprint" >> :
                                                 i \in 1..Len(fps) }
                          /\ listed' = turn.events
                          /\ IF map.raised
                             THEN /\ Raise("target_fingerprint")
                                  /\ UNCHANGED << target_events, fetched >>
                             ELSE /\ target_events' = map.value
                                  /\ fetched' = map.value
                                  /\ pc' = "create_loop"
                                  /\ UNCHANGED << inflight, result >>
    /\ UNCHANGED << others, shutdown, provider, viewed, queue, source_events, idx,
                    calls, prevOk, prevShared, prevMoved, removalsLeft, elapsed, window >>

\* run(), lines 204-213: one turn of the loop over source_events.items()
CreateLoop ==
    /\ pc = "create_loop"
    /\ IF idx > Len(source_events)
       THEN /\ pc' = "delete_loop"
            /\ idx' = 1
            /\ UNCHANGED << target, nextId, inflight, target_events, calls, ops,
                            log, result, failuresLeft >>
       ELSE LET fingerprint  == source_events[idx][1]
                source_event == source_events[idx][2]
                args         == CreateArgs(source_event, tz)
            IN  IF DictHas(target_events, fingerprint)
                THEN /\ target_events' = DictDel(target_events, fingerprint)
                     /\ idx' = idx + 1
                     /\ UNCHANGED << target, nextId, pc, inflight, calls, ops,
                                     log, result, failuresLeft >>
                ELSE \E ok \in BOOLEAN :
                       /\ ok \/ failuresLeft > 0
                       /\ calls' = Append(calls, [ calendar |-> ApplyReceiver,
                                                   op       |-> "create",
                                                   arg      |-> args ])
                       /\ ops' = ops \cup { << ApplyReceiver, "create" >> }
                       /\ IF ok
                          THEN /\ target' = GoogleInsert(target,
                                              GoogleCreateBody(args.start, args.end,
                                                  args.subject, args.description),
                                              nextId)
                               /\ nextId' = nextId + 1
                               /\ log' = log \cup { "event_created" }
                               /\ idx' = idx + 1
                               /\ UNCHANGED << pc, inflight, result, failuresLeft >>
                          ELSE /\ Raise("create")
                               /\ failuresLeft' = failuresLeft - 1
                               /\ UNCHANGED << target, nextId, log, idx >>
                       /\ UNCHANGED target_events
    /\ UNCHANGED << others, shutdown, paging, viewed, source, tz, queue, source_events, fetched, listed,
                    prevOk, prevShared, prevMoved, removalsLeft, elapsed, window >>

\* run(), lines 214-215: one turn of the loop over what is left of
\* target_events, then the return to the scheduler.  The provider answers
\* the delete of an event it no longer has with an error (HTTP 410), which
\* execute() raises.
DeleteLoop ==
    /\ pc = "delete_loop"
    /\ IF idx > Len(target_events)
       THEN /\ pc' = "sched"
            /\ inflight' = inflight - 1
            /\ result' = "ok"
            /\ UNCHANGED << target, idx, calls, ops, log, failuresLeft >>
       ELSE LET target_event == target_events[idx][2]
                gone         == target_event.id \notin GoogleIds(target)
            IN  \E ok \in BOOLEAN :
                  /\ ok \/ failuresLeft > 0
                  /\ calls' = Append(calls, [ calendar |-> ApplyReceiver,
                                              op       |-> "delete",
                                              arg      |-> [ event   |-> target_event,
                                                             eventId |-> target_event.id ] ])
                  /\ ops' = ops \cup { << ApplyReceiver, "delete" >> }
                  /\ IF ok /\ ~ gone
                     THEN /\ target' = GoogleRemove(target, target_event.id)
                          /\ log' = log \cup { "event_deleted" }
                          /\ idx' = idx + 1
                          /\ UNCHANGED << pc, inflight, result, failuresLeft >>
                     ELSE /\ Raise(IF ok THEN "delete_gone" ELSE "delete")
                          /\ failuresLeft' = IF ok THEN failuresLeft
                                                   ELSE failuresLeft - 1
                          /\ UNCHANGED << target, log, idx >>
    /\ UNCHANGED << others, shutdown, paging, viewed, source, tz, nextId, queue, source_events,
                    target_events,
                    fetched, listed, prevOk, prevShared, prevMoved, removalsLeft, elapsed,
                    window >>

\* a scheduler that hands each action to a thread of its own and goes on
SchedulerReadyDetached == pc \notin { "main", "dead", "exited", "periodic" }

\* the thread is inside scheduler.run() and no action is executing: the
\* action of an event is called by the scheduler's own thread, which looks
\* at the queue again only after the action has returned
SchedulerReady == pc = "sched"

\* a scheduler that calls the head of the queue whatever its time
DueAtOnce == queue # << >>

\* the head of the queue is due
Due == queue # << >> /\ Head(queue) = 0

\* scheduler.run(): pop the head of the queue when it is due and call its
\* action, periodic()
SchedulerRun ==
    /\ SchedulerReady
    /\ Due
    /\ queue' = Tail(queue)
    /\ pc' = "periodic"
    /\ UNCHANGED << others, shutdown, provider, inflight, locals, history, result, prevOk,
                    prevShared, prevMoved, failuresLeft, removalsLeft, elapsed >>

\* Time passes: in a provider call of run(), or in the delayfunc of
\* scheduler.run() while the head of the queue is not due.  Once the thread
\* has ended nothing reads the clock any more.
Tick ==
    /\ pc \notin { "main", "periodic", "dead", "exited" }
    /\ ~ (SchedulerReady /\ Due)
    /\ queue' = [ i \in 1..Len(queue) |-> Max(queue[i] - TickSec, 0) ]
    /\ elapsed' = Min(elapsed + TickSec, MaxElapsed)
    /\ UNCHANGED << others, shutdown, provider, pc, inflight, locals, history, result, prevOk,
                    prevShared, prevMoved, failuresLeft, removalsLeft >>

\* Another client of the Google calendar removes an event
ExternalRemove ==
    /\ removalsLeft > 0
    /\ pc \notin { "main", "dead", "exited" }
    /\ \E i \in 1..Len(target) : target' = GoogleRemove(target, target[i].id)
    /\ removalsLeft' = removalsLeft - 1
    /\ UNCHANGED << others, shutdown, source, tz, nextId, pc, queue, inflight, locals, history,
                    result, prevOk, prevShared, prevMoved, failuresLeft, elapsed >>

Next ==
    \/ Start
    \/ Periodic
    \/ FetchSource
    \/ FetchTarget
    \/ CreateLoop
    \/ DeleteLoop
    \/ SchedulerRun
    \/ Tick
    \/ ExternalRemove

Spec == Init /\ [][Next]_vars

\* The thread runs whenever it can, and time passes.
FairSpec ==
    /\ Spec
    /\ WF_vars(Start)
    /\ WF_vars(Periodic)
    /\ WF_vars(FetchSource)
    /\ WF_vars(FetchTarget)
    /\ WF_vars(CreateLoop)
    /\ WF_vars(DeleteLoop)
    /\ WF_vars(SchedulerRun)
    /\ WF_vars(Tick)

\* exit_gracefully(), line 223: the record it logs
ExitRecords == { "exiting" }

\* shutdown.main is one of
\*   "module"      the main thread runs the code of the main module
\*   "joining"     the main module is over: the main thread waits for the
\*                 scheduler's thread in threading._shutdown
\*   "finalizing"  SystemExit has ended that wait, the interpreter finalizes

\* run() has returned the thread it started and the main module ends: the
\* main thread goes on to wait for the scheduler's thread
MainReturns ==
    /\ pc \notin { "main", "dead", "exited" }
    /\ shutdown.main = "module"
    /\ shutdown' = [ shutdown EXCEPT !.main = "joining" ]
    /\ UNCHANGED << others, provider, pc, queue, inflight, locals, history,
                    result, prevOk, prevShared, prevMoved, failuresLeft,
                    removalsLeft, elapsed >>

\* SIGTERM or SIGINT arrives and exit_gracefully() runs in the main thread:
\* it logs and calls sys.exit(0).  Before run() is called the main thread is
\* the only one and the process ends there.  While the main thread is still
\* in the main module, SystemExit ends the module, and the main thread goes
\* on to wait for the scheduler's thread as if the module had returned: the
\* cycles go on.  While the main thread is waiting for the scheduler's
\* thread, SystemExit ends that wait and the interpreter starts to finalize,
\* the scheduler's thread still running.
Signal ==
    /\ pc \notin { "dead", "exited" }
    /\ shutdown.main # "finalizing"
    /\ shutdown' = [ signalled |-> TRUE,
                     records   |-> shutdown.records \cup ExitRecords,
                     main      |-> IF pc = "main" THEN "module"
                                   ELSE IF shutdown.main = "module"
                                   THEN "joining" ELSE "finalizing" ]
    /\ pc' = IF pc = "main" THEN "exited" ELSE pc
    /\ UNCHANGED << others, provider, queue, inflight, locals, history, result,
                    prevOk, prevShared, prevMoved, failuresLeft, removalsLeft, elapsed >>

\* The interpreter has finalized: the process ends, and the scheduler's
\* thread with it, wherever it stands.
Exit ==
    /\ shutdown.main = "finalizing"
    /\ pc \notin { "dead", "exited" }
    /\ pc' = "exited"
    /\ result' = IF inflight > 0 THEN "interrupted" ELSE result
    /\ UNCHANGED << others, shutdown, provider, queue, inflight, locals, history,
                    prevOk, prevShared, prevMoved, failuresLeft, removalsLeft, elapsed >>

\* One cycle, with requests that fail and another client of the target
CycleNext ==
    \/ Start
    \/ Periodic
    \/ FetchSource
    \/ FetchTarget
    \/ CreateLoop
    \/ DeleteLoop
    \/ ExternalRemove

CycleSpec == Init /\ [][CycleNext]_vars

\* The scheduler and the termination signal, over a source of up to two
\* appointments and a target that holds at most an event the source does
\* not have
SchedInit ==
    /\ tz \in TzOffsets
    /\ source \in ListsOf({ EvA, EvB }, SchedMax)
    /\ target \in ListsOf({ GoogleOld(tz, 3) }, SchedMax)
    /\ InitProgram

SchedNext ==
    \/ Next
    \/ MainReturns
    \/ Signal
    \/ Exit

SchedSpec ==
    /\ SchedInit
    /\ [][SchedNext]_vars
    /\ WF_vars(Start)
    /\ WF_vars(Periodic)
    /\ WF_vars(FetchSource)
    /\ WF_vars(FetchTarget)
    /\ WF_vars(CreateLoop)
    /\ WF_vars(DeleteLoop)
    /\ WF_vars(SchedulerRun)
    /\ WF_vars(Tick)
    /\ WF_vars(MainReturns)
    /\ WF_vars(Exit)

\* The same, over a source of at most one appointment: the times at which
\* the cycles start do not depend on what the calendars hold
CadenceInit ==
    /\ tz \in TzOffsets
    /\ source \in ListsOf({ EvA }, SchedMax)
    /\ target \in ListsOf({ GoogleOld(tz, 3) }, SchedMax)
    /\ InitProgram

CadenceSpec ==
    /\ CadenceInit
    /\ [][SchedNext]_vars
    /\ WF_vars(Start)
    /\ WF_vars(Periodic)
    /\ WF_vars(FetchSource)
    /\ WF_vars(FetchTarget)
    /\ WF_vars(CreateLoop)
    /\ WF_vars(DeleteLoop)
    /\ WF_vars(SchedulerRun)
    /\ WF_vars(Tick)
    /\ WF_vars(MainReturns)
    /\ WF_vars(Exit)

\* The event maps of two appointments whose subjects and bodies are drawn
\* from the strings over "a" and the separator of fingerprint()
FpChars == { "a", "|" }

FpStrings == UNION { [1..k -> FpChars] : k \in 0..FpMaxLen }

FpSourcePool ==
    { [ start |-> Utc(10), end |-> Utc(12), subject |-> Some(s),
        text_body |-> Some(b), is_all_day |-> FALSE ] :
      s \in FpStrings, b \in FpStrings }

\* the target is empty or holds what create() makes of each source event
FpInit ==
    /\ tz \in TzOffsets
    /\ source \in ListsOf(FpSourcePool, 2)
    /\ target \in { << >>,
                     [ i \in 1..Len(source) |-> GoogleImage(source[i], tz, i) ] }
    /\ InitProgram

\* periodic() when utcnow() reads Epoch
PeriodicAtEpoch == PeriodicAt(Epoch)

\* one cycle
FpNext ==
    \/ Start
    \/ PeriodicAtEpoch
    \/ FetchSource
    \/ FetchTarget
    \/ CreateLoop
    \/ DeleteLoop

FpSpec == FpInit /\ [][FpNext]_vars

\* Cycles after one another over an appointment with no body, two events of
\* the target alone with one fingerprint, and an event of either calendar
\* that starts where the window of Epoch ends
IdemInit ==
    /\ tz \in TzOffsets
    /\ source \in ListsOf({ EvA2, EvLate(tz) }, MaxSrc)
    /\ target \in ListsOf({ GoogleOld(tz, 3), GoogleOld(tz, 4),
                            GoogleLate(tz, 2) }, MaxTgt)
    /\ InitProgram

IdemSpec == IdemInit /\ [][Next]_vars

\* One cycle over calendars that may hold an all-day event or an appointment
\* without a subject
OddInit ==
    /\ tz \in TzOffsets
    /\ source \in ListsOf(SourcePool, OddMax)
    /\ target \in ListsOf(TargetPool(tz), OddMax)
    /\ InitProgram

OddNext ==
    \/ Start
    \/ Periodic
    \/ FetchSource
    \/ FetchTarget
    \/ CreateLoop
    \/ DeleteLoop

OddSpec == OddInit /\ [][OddNext]_vars

\* The window of a cycle, whatever hour the clock shows when it starts
WindowHours == 0..(2 * HoursPerDay - 1)

WindowInit ==
    /\ tz \in TzOffsets
    /\ source \in ListsOf({ EvB }, 1)
    /\ target = << >>
    /\ InitProgram

PeriodicAnyHour == \E now \in WindowHours : PeriodicAt(now)

WindowNext ==
    \/ Start
    \/ PeriodicAnyHour
    \/ FetchSource
    \/ FetchTarget
    \/ CreateLoop
    \/ DeleteLoop
    \/ SchedulerRun
    \/ Tick

WindowSpec == WindowInit /\ [][WindowNext]_vars

TypeOK ==
    /\ pc \in { "main", "periodic", "fetch_source", "fetch_target",
                "create_loop", "delete_loop", "sched", "dead", "exited" }
    /\ inflight \in 0..1
    /\ Len(queue) <= 1

\* ------------------------------------------------------------------------
\* YouTubeDownload
\* ------------------------------------------------------------------------
\* yt.pc is one of
\*   "main"      YouTubeDownload(...).run() has not been called
\*   "periodic"  periodic() was entered
\*   "items"     run() is inside playlist_items(), before a request
\*   "download"  run() is at the head of its for loop
\*   "delete"    download() returned, playlist_item_delete() is next
\*   "sched"     inside scheduler.run(), between two events
\*   "dead"      an exception left the thread's function
\* yt.calls holds the download() and playlist_item_delete() calls of the
\* current cycle, in order, each with the item and whether it returned.

\* neither calendar is there, CalendarSync is not started
NoCalendars ==
    /\ tz = 0
    /\ source = << >>
    /\ target = << >>
    /\ InitCalendarSync

YtInit ==
    /\ NoCalendars
    /\ yt \in { YtIdle(playlist) : playlist \in ListsOf(YtPool, YtMax) }
    /\ oauth = OauthIdle(ClientConfig)

\* run() is called: @asynchronous starts the thread, the wrapper of
\* @schedule makes the scheduler and calls periodic()
YtStart ==
    /\ yt.pc = "main"
    /\ yt' = [ yt EXCEPT !.pc = "periodic" ]
    /\ UNCHANGED << sync, oauth >>

\* periodic(): enter the follow-up event, then call run()
YtPeriodic ==
    /\ yt.pc = "periodic"
    /\ yt' = [ yt EXCEPT !.queue = Enter(yt.queue, SYNC_INTERVAL_SEC),
                         !.pc    = "items",
                         !.items = << >>,
                         !.i     = 1,
                         !.calls = << >>,
                         !.result = "running" ]
    /\ UNCHANGED << sync, oauth >>

\* run(): the iterable of the for loop, playlist_items(), one request at a
\* time; a request may raise
YtItems ==
    /\ yt.pc = "items"
    /\ \E ok \in BOOLEAN :
         LET turn == PlaylistTurn(yt.playlist, yt.paged)
             none == [ items |-> << >>, page_token |-> None ]
         IN  yt' = IF ~ ok
                   THEN [ yt EXCEPT !.paged  = none,
                                    !.pc     = "dead",
                                    !.result = "playlist_items" ]
                   ELSE IF turn.returns
                   THEN [ yt EXCEPT !.paged = none,
                                    !.items = turn.items,
                                    !.pc    = "download" ]
                   ELSE [ yt EXCEPT !.paged = [ items      |-> turn.items,
                                                page_token |-> turn.page_token ] ]
    /\ UNCHANGED << sync, oauth >>

\* run(): the next item of the for loop and its download(), or the end of the
\* loop and the return to scheduler.run()
YtDownload ==
    /\ yt.pc = "download"
    /\ IF yt.i > Len(yt.items)
       THEN yt' = [ yt EXCEPT !.pc = "sched", !.result = "ok" ]
       ELSE \E returncode \in ReturnCodes :
              LET call == [ op   |-> "download",
                            item |-> yt.items[yt.i],
                            ok   |-> returncode = 0 ]
              IN  yt' = IF CheckRaises(returncode)
                        THEN [ yt EXCEPT !.calls  = Append(@, call),
                                         !.pc     = "dead",
                                         !.result = "download" ]
                        ELSE [ yt EXCEPT !.calls = Append(@, call),
                                         !.pc    = "delete" ]
    /\ UNCHANGED << sync, oauth >>

\* run(): playlist_item_delete() of the item just downloaded; the call may
\* raise
YtDelete ==
    /\ yt.pc = "delete"
    /\ \E ok \in BOOLEAN :
         LET item == yt.items[yt.i]
             call == [ op |-> "delete", item |-> item, ok |-> ok ]
         IN  yt' = IF ok
                   THEN [ yt EXCEPT
                            !.playlist = PlaylistDelete(@, item.id),
                            !.calls    = Append(@, call),
                            !.i        = @ + 1,
                            !.pc       = "download" ]
                   ELSE [ yt EXCEPT !.calls  = Append(@, call),
                                    !.pc     = "dead",
                                    !.result = "delete" ]
    /\ UNCHANGED << sync, oauth >>

\* scheduler.run(): pop the head of the queue when it is due and call
\* periodic()
YtSchedulerRun ==
    /\ yt.pc = "sched"
    /\ yt.queue # << >>
    /\ Head(yt.queue) = 0
    /\ yt' = [ yt EXCEPT !.queue = Tail(@), !.pc = "periodic" ]
    /\ UNCHANGED << sync, oauth >>

\* Time passes, in a call of run() or in the delayfunc of scheduler.run()
YtTick ==
    /\ yt.pc \in { "items", "download", "delete", "sched" }
    /\ yt.queue # << >>
    /\ Head(yt.queue) > 0
    /\ yt' = [ yt EXCEPT !.queue =
                 [ k \in 1..Len(@) |-> Max(@[k] - TickSec, 0) ] ]
    /\ UNCHANGED << sync, oauth >>

\* The owner of the playlist adds a video: the new item goes to the end
YtAdd ==
    /\ yt.pc \notin { "main", "dead" }
    /\ Len(yt.playlist) < YtMax
    /\ \E item \in YtPool :
         /\ \A k \in 1..Len(yt.playlist) : yt.playlist[k].id # item.id
         /\ yt' = [ yt EXCEPT !.playlist = Append(@, item) ]
    /\ UNCHANGED << sync, oauth >>

YtNext ==
    \/ YtStart
    \/ YtPeriodic
    \/ YtItems
    \/ YtDownload
    \/ YtDelete
    \/ YtSchedulerRun
    \/ YtTick
    \/ YtAdd

YtSpec == YtInit /\ [][YtNext]_vars

\* ------------------------------------------------------------------------
\* GoogleCredentials
\* ------------------------------------------------------------------------
\* oauth.pc is one of
\*   "main"       the program has not loaded its config file
\*   "login"      GoogleCredentials(config) is constructed, login() is next
\*   "refresh"    inside refresh(), before credentials.refresh(Request())
\*   "authorize"  inside authorize()
\*   "persist"    login() holds the credentials, on_token_auto_refreshed()
\*                is next
\*   "returned"   login() returned oauth.credentials
\*   "raised"     an exception left login()
\* oauth.stored is self.refresh_token as login() found it; oauth.authorized
\* and oauth.refresh_error tell whether this login() entered authorize() and
\* whether its refresh attempt raised RefreshError.

OauthInit ==
    /\ NoCalendars
    /\ yt = YtIdle(<< >>)
    /\ oauth \in { OauthIdle(file) : file \in ConfigPool }

\* Config(file).load() and GoogleCredentials(config)
OauthLoad ==
    /\ oauth.pc = "main"
    /\ oauth' = [ oauth EXCEPT
                    !.config        = oauth.file,
                    !.refresh_token = ConfigGet(oauth.file, "refresh_token"),
                    !.pc            = "login" ]
    /\ UNCHANGED << sync, yt >>

\* login(): the branch on self.refresh_token
OauthLogin ==
    /\ oauth.pc = "login"
    /\ oauth' = [ oauth EXCEPT
                    !.stored = oauth.refresh_token,
                    !.pc     = IF Truthy(oauth.refresh_token)
                               THEN "refresh" ELSE "authorize" ]
    /\ UNCHANGED << sync, yt >>

\* refresh(): the token endpoint answers, keeping the refresh token or
\* sending a new one; or credentials.refresh() raises RefreshError, and
\* authorize() is called; or another exception leaves login()
OauthRefresh ==
    /\ oauth.pc = "refresh"
    /\ \/ \E token \in { oauth.refresh_token } \cup (Tokens \ { None }) :
            oauth' = [ oauth EXCEPT
                         !.credentials = Some([ refresh_token |-> token ]),
                         !.pc          = "persist" ]
       \/ oauth' = [ oauth EXCEPT !.refresh_error = TRUE,
                                  !.pc            = "authorize" ]
       \/ oauth' = [ oauth EXCEPT !.pc = "raised" ]
    /\ UNCHANGED << sync, yt >>

\* authorize(): the flow in the browser ends with credentials, with or
\* without a refresh token, or raises
OauthAuthorize ==
    /\ oauth.pc = "authorize"
    /\ \/ \E token \in Tokens :
            oauth' = [ oauth EXCEPT
                         !.authorized  = TRUE,
                         !.credentials = Some([ refresh_token |-> token ]),
                         !.pc          = "persist" ]
       \/ oauth' = [ oauth EXCEPT !.authorized = TRUE, !.pc = "raised" ]
    /\ UNCHANGED << sync, yt >>

\* login(): on_token_auto_refreshed(credentials), with Config.set() and
\* Config.save(), and the return
OauthPersist ==
    /\ oauth.pc = "persist"
    /\ LET token  == oauth.credentials[1].refresh_token
           config == ConfigSet(oauth.config, "refresh_token", token)
       IN  oauth' = [ oauth EXCEPT !.refresh_token = token,
                                   !.config        = config,
                                   !.file          = config,
                                   !.pc            = "returned" ]
    /\ UNCHANGED << sync, yt >>

\* The program is started again with the config file as it is
OauthRestart ==
    /\ oauth.pc \in { "returned", "raised" }
    /\ oauth' = OauthIdle(oauth.file)
    /\ UNCHANGED << sync, yt >>

OauthNext ==
    \/ OauthLoad
    \/ OauthLogin
    \/ OauthRefresh
    \/ OauthAuthorize
    \/ OauthPersist
    \/ OauthRestart

OauthSpec == OauthInit /\ [][OauthNext]_vars

\* ------------------------------------------------------------------------
\* Properties
\* ------------------------------------------------------------------------
\* fingerprints of the source dict that the fetched target dict lacks
SourceOnly == DictKeys(source_events) \ DictKeys(fetched)

\* fingerprints of the fetched target dict that the source dict lacks
TargetOnly == DictKeys(fetched) \ DictKeys(source_events)

\* a body, absent read as empty
BodyOf(x) == IF x = None THEN EmptyStr ELSE x[1]

IsCreateFor(c, e) ==
    /\ c.op = "create"
    /\ c.calendar = "target"
    /\ c.arg.start = [t |-> e.start.t, off |-> tz]
    /\ c.arg.end = [t |-> e.end.t, off |-> tz]
    /\ c.arg.subject = e.subject
    /\ BodyOf(c.arg.description) = BodyOf(e.text_body)

IsDeleteFor(c, g) ==
    /\ c.op = "delete"
    /\ c.calendar = "target"
    /\ c.arg.eventId = g.id

CallsWhere(P(_)) == { i \in 1..Len(calls) : P(calls[i]) }

\* nobody but run() has touched the target calendar
Undisturbed == removalsLeft = MaxRemovals

\* C1: in a cycle that returned normally, with S the source dict and T the
\* target dict as fetched, there is exactly one create call for each
\* fingerprint of S \ T, carrying that source event's start and end in the
\* source calendar's zone, its subject and its body; exactly one delete call
\* for each fingerprint of T \ S, carrying that target event's id; and no
\* other call.
C1_DiffCalls ==
    result = "ok" =>
        /\ \A f \in SourceOnly :
             Cardinality(CallsWhere(LAMBDA c :
                 IsCreateFor(c, DictGet(source_events, f)))) = 1
        /\ \A f \in TargetOnly :
             Cardinality(CallsWhere(LAMBDA c :
                 IsDeleteFor(c, DictGet(fetched, f)))) = 1
        /\ Len(calls) = Cardinality(SourceOnly) + Cardinality(TargetOnly)

\* a finished cycle, away from UTC, that kept one event, created one
\* (with a body) and deleted one
C1_Witness ==
    /\ result = "ok"
    /\ tz # 0
    /\ DictKeys(source_events) \cap DictKeys(fetched) # { }
    /\ \E i \in 1..Len(calls) : calls[i].op = "create" /\ Truthy(calls[i].arg.description)
    /\ \E i \in 1..Len(calls) : calls[i].op = "delete"

\* the cycle has just returned normally and nobody else touched the target
CycleDone == pc = "sched" /\ result = "ok" /\ Undisturbed

\* C2 as claimed: after a cycle without failure the fingerprints at the
\* target are exactly the fingerprints of the source events, whatever the two
\* collections were.
C2_ConvergenceAnyCollection ==
    CycleDone => TargetFps(target) = SourceFps(ExchangeEvents(source), tz)

\* C2, amended: after a cycle without failure the fingerprints at the target
\* are exactly the fingerprints of the source events, provided the listed
\* target events did not include two with one fingerprint that no source
\* event has.
C2_Convergence ==
    (CycleDone /\ SharedOutsideSource(listed, source_events) = { }) =>
        TargetFps(target) = SourceFps(ExchangeEvents(source), tz)

\* a finished cycle over a source that holds one fingerprint twice; the
\* cycle both created and deleted
C2_Witness ==
    /\ CycleDone
    /\ SharedOutsideSource(listed, source_events) = { }
    /\ Len(ExchangeEvents(source)) > Len(source_events)
    /\ \E i \in 1..Len(calls) : calls[i].op = "create"
    /\ \E i \in 1..Len(calls) : calls[i].op = "delete"

\* no provider call has raised
Unfailing == failuresLeft = MaxFailures

\* C3 as claimed: the cycle that follows a cycle without failure makes no
\* create and no delete call (the source calendar never changes), shown
\* where no call has failed at all.
C3_IdempotenceAnyCollection ==
    (prevOk /\ Unfailing) => calls = << >>

\* C3 with every premise of the amended claim but the one on other clients
\* of the target
C3_IdempotenceOtherClient ==
    (prevOk /\ Unfailing /\ ~ prevShared /\ ~ prevMoved) => calls = << >>

\* C3 with every premise of the amended claim but the one on target events
\* that share a fingerprint
C3_IdempotenceShared ==
    (prevOk /\ Unfailing /\ Undisturbed /\ ~ prevMoved) => calls = << >>

\* C3 with every premise of the amended claim but the one on the window
C3_IdempotenceAnyWindow ==
    (prevOk /\ Unfailing /\ Undisturbed /\ ~ prevShared) => calls = << >>

\* C3, amended: the cycle that follows a cycle without failure makes no
\* create and no delete call, provided that no other client has changed the
\* target, that the target events listed by the first cycle did not include
\* two with one fingerprint that no source event has, and that the window of
\* the second cycle holds the same events of both calendars as the window
\* of the first.
C3_Idempotence ==
    (prevOk /\ Undisturbed /\ ~ prevShared /\ ~ prevMoved) => calls = << >>

\* the second of two cycles has returned; the first one created the event
\* of a source event that has an empty or no body
C3_Witness ==
    /\ prevOk
    /\ Undisturbed
    /\ ~ prevShared
    /\ ~ prevMoved
    /\ window.now > Epoch
    /\ result = "ok"
    /\ tz # 0
    /\ \E i \in 1..Len(target) :
         target[i].id >= FirstNewId /\ target[i].description = None

\* C4: whatever has happened so far, the only methods invoked on the source
\* calendar are events() and fingerprint(); no create or delete call was
\* addressed to it.
C4_NoSourceMutation ==
    /\ \A o \in ops : o[1] = "source" => o[2] \in { "events", "fingerprint" }
    /\ \A i \in 1..Len(calls) : calls[i].calendar # "source"

\* both kinds of call were made, and the thread has died of a failure
C4_Witness ==
    /\ << "target", "create" >> \in ops
    /\ << "target", "delete" >> \in ops
    /\ << "source", "fingerprint" >> \in ops
    /\ pc = "dead"

\* the records of the current cycle that report a failure: whatever the log
\* holds besides the records of level DEBUG
ErrorRecords ==
    log \ { "time_window", "o365_fetched", "google_fetched", "event_created",
            "event_deleted" }

FetchFailed == result \in { "source_fetch", "target_fetch" }

ApplyFailed == result \in { "create", "delete" }

\* C5: a cycle in which listing the source or the target failed makes no
\* create and no delete call, and the failure is logged.
C5_FetchFailureIsolated ==
    FetchFailed => (calls = << >> /\ ErrorRecords # { })

\* C6: after a cycle in which listing the source or the target failed, the
\* thread that runs the scheduler is still alive, so that the next cycle can
\* start.
C6_FetchFailureKeepsScheduler ==
    FetchFailed => pc # "dead"

\* C7: when a create or a delete call has failed, the cycle still makes the
\* call of every other entry of its diff: once run() is over, every
\* fingerprint of the diff has had its call.
C7_ApplyFailureContinues ==
    (ApplyFailed /\ inflight = 0) =>
        Len(calls) = Cardinality(SourceOnly) + Cardinality(TargetOnly)

\* C8: once a create or a delete call has failed and the provider accepts
\* calls again, the fingerprints at the target eventually equal those of the
\* source (unless another client changes the target meanwhile).
C8_EventualConvergence ==
    [](( ApplyFailed /\ failuresLeft = 0 ) =>
         <>( \/ TargetFps(target) = SourceFps(ExchangeEvents(source), tz)
             \/ ~ Undisturbed ))

\* C9: the delete of an event that the provider no longer has counts as
\* done: it does not end the cycle, nor the thread of the scheduler.
C9_IdempotentDelete ==
    result = "delete_gone" => pc # "dead"

\* C10: at most one invocation of run() is in progress.
C10_NonOverlap == inflight <= 1

\* run() is still in progress long after the follow-up event became due
C10_Witness ==
    /\ inflight = 1
    /\ elapsed > SYNC_INTERVAL_SEC
    /\ Due
    /\ calls # << >>

\* C11: the first cycle starts with no delay; a cycle that returned is
\* followed by another one unless the process is told to end; the next cycle
\* starts when SYNC_INTERVAL_SEC have passed since the start of the previous
\* one, or as soon as the previous one has returned if that is later.
C11_Cadence ==
    /\ []((pc = "periodic" /\ result = "none") => elapsed = 0)
    /\ []((pc = "periodic" /\ result # "none") => elapsed >= SYNC_INTERVAL_SEC)
    /\ []((pc = "sched" /\ elapsed >= SYNC_INTERVAL_SEC) => Due)
    /\ [][(pc = "sched" /\ elapsed' # elapsed) => elapsed' <= SYNC_INTERVAL_SEC]_vars
    /\ [](pc = "sched" => <>(pc \in { "periodic", "exited" }))

\* a cycle that took longer than the interval has returned, and so has one
\* that returned at once
C11_Witness ==
    /\ pc = "periodic"
    /\ result = "ok"
    /\ prevOk
    /\ elapsed > SYNC_INTERVAL_SEC

\* the process has ended on a signal
Exited == pc = "exited"

\* C12: once the signal has arrived the interruption is logged and no cycle
\* starts any more; a cycle that the end of the process cut is never left
\* without the logged interruption.
C12_Cancellation ==
    /\ [](shutdown.signalled => "exiting" \in shutdown.records)
    /\ [][shutdown.signalled => ~ (pc = "periodic" /\ pc' = "fetch_source")]_vars
    /\ []((Exited /\ result = "interrupted") => "exiting" \in shutdown.records)

\* what identifies an appointment of the source, and an event of the target
ExchangeFields(e) == << e.start, e.end, e.subject, e.text_body >>

GoogleFields(e) == << e.start, e.end, e.summary, e.description >>

\* C13: events that differ in start, end, subject or body have different
\* fingerprints, whatever characters the subject and the body hold: the map
\* of a list of such events has an entry for each of them.
C13_FingerprintInjective ==
    /\ ( /\ pc \in { "fetch_target", "create_loop" }
         /\ \A i, j \in 1..Len(source) :
              i # j => ExchangeFields(source[i]) # ExchangeFields(source[j]) )
       => Len(source_events) = Len(ExchangeEvents(source))
    /\ ( /\ pc = "create_loop"
         /\ \A i, j \in 1..Len(listed) :
              i # j => GoogleFields(listed[i]) # GoogleFields(listed[j]) )
       => Len(fetched) = Len(listed)

\* an appointment with an absent subject read as the empty one
WithSubject(e) ==
    [ e EXCEPT !.subject = IF e.subject = None THEN Some(EmptyStr) ELSE e.subject ]

\* C14: fingerprint() has a value for every event that events() returned,
\* an absent subject counting as the empty one, so building the map of the
\* source never fails and holds an entry for each of its events.
C14_FingerprintTotal ==
    /\ result # "source_fingerprint"
    /\ pc \in { "fetch_target", "create_loop", "delete_loop", "sched" } =>
         \A i \in 1..Len(ExchangeEvents(source)) :
            DictHas(source_events,
                    ExchangeFingerprint(WithSubject(ExchangeEvents(source)[i]), tz))

\* an event of the target without 'dateTime' in its start or end
GoogleAllDay(e) == e.start = None \/ e.end = None

\* C15: neither the events the source returned nor those the target
\* returned include an all-day event.
C15_NoAllDay ==
    /\ \A i \in 1..Len(source_events) : ~ source_events[i][2].is_all_day
    /\ \A i \in 1..Len(listed) : ~ GoogleAllDay(listed[i])

\* the calls made so far in the cycle are within its bound
WithinBound ==
    /\ Cardinality(CallsWhere(LAMBDA c : c.op = "create")) <= Len(source_events)
    /\ Cardinality(CallsWhere(LAMBDA c : c.op = "delete")) <= Len(fetched)
    /\ Len(calls) <= Len(source_events) + Len(fetched)
    /\ \A k \in 1..Len(calls) :
         \/ \E f \in SourceOnly : IsCreateFor(calls[k], DictGet(source_events, f))
         \/ \E f \in TargetOnly : IsDeleteFor(calls[k], DictGet(fetched, f))

\* the cycle is over: run() has returned or raised
CycleOver == pc \in { "sched", "dead" }

\* C16: when a cycle is over it has made at most one create call per entry
\* of its source dict and one delete call per entry of its target dict as
\* fetched, and every call it made is for an entry of its own diff.
C16_OperationBound == CycleOver => WithinBound

\* a cycle that returned made a call for each entry of both dicts
C16_Witness ==
    /\ result = "ok"
    /\ Len(source_events) = 2
    /\ Len(fetched) = 1
    /\ Len(calls) = 3

\* the indices of a sequence, in order
Indices(seq) == [ i \in 1..Len(seq) |-> i ]

\* the calls that follow from what the two providers hold: in list order of
\* its first event, a create for every fingerprint of the source that no
\* listed target event has, with the fields of the last source event of that
\* fingerprint; then likewise a delete for every fingerprint of the listed
\* target events that no source event has
CallsFor(srcItems, tgtItems, zone) ==
    LET sfp == [ i \in 1..Len(srcItems) |-> ExchangeFingerprint(srcItems[i], zone) ]
        tfp == [ i \in 1..Len(tgtItems) |-> GoogleFingerprint(tgtItems[i]) ]
        sFirst == SelectSeq(Indices(srcItems), LAMBDA i :
                     /\ \A j \in 1..(i - 1) : sfp[j] # sfp[i]
                     /\ \A j \in 1..Len(tgtItems) : tfp[j] # sfp[i])
        tFirst == SelectSeq(Indices(tgtItems), LAMBDA i :
                     /\ \A j \in 1..(i - 1) : tfp[j] # tfp[i]
                     /\ \A j \in 1..Len(srcItems) : sfp[j] # tfp[i])
        sLast(i) == srcItems[CHOOSE j \in i..Len(srcItems) :
                     /\ sfp[j] = sfp[i]
                     /\ \A k \in (j + 1)..Len(srcItems) : sfp[k] # sfp[i]]
        tLast(i) == tgtItems[CHOOSE j \in i..Len(tgtItems) :
                     /\ tfp[j] = tfp[i]
                     /\ \A k \in (j + 1)..Len(tgtItems) : tfp[k] # tfp[i]]
    IN  [ n \in 1..Len(sFirst) |->
            [ calendar |-> "target", op |-> "create",
              arg |-> [ start       |-> [t |-> sLast(sFirst[n]).start.t, off |-> zone],
                        end         |-> [t |-> sLast(sFirst[n]).end.t, off |-> zone],
                        subject     |-> sLast(sFirst[n]).subject,
                        description |-> IF BodyOf(sLast(sFirst[n]).text_body) = EmptyStr
                                        THEN None
                                        ELSE sLast(sFirst[n]).text_body ] ] ]
        \o
        [ n \in 1..Len(tFirst) |->
            [ calendar |-> "target", op |-> "delete",
              arg |-> [ event   |-> tLast(tFirst[n]),
                        eventId |-> tLast(tFirst[n]).id ] ] ]

\* the calls of the cycle are those that follow from the providers' lists
CallsFollow ==
    calls = CallsFor(SelectSeq(source, LAMBDA e : ~ e.is_all_day), listed, tz)

\* C17: the calls of a cycle that has returned follow from what the
\* providers held when it fetched them, whichever cycles went before.
C17_Stateless == (pc = "sched" /\ result = "ok") => CallsFollow

\* a cycle after another one, over a target that somebody else changed in
\* between, made calls again
C17_Witness ==
    /\ pc = "sched"
    /\ result = "ok"
    /\ prevOk
    /\ ~ Undisturbed
    /\ calls # << >>

\* C18: events() of the target returns the events of all pages in page
\* order, that is the provider's whole list, however many pages it took.
C18_PagesDrained ==
    (pc = "create_loop" /\ idx = 1 /\ calls = << >> /\ Undisturbed) =>
        listed = target

\* the list just fetched took more than one request
C18_Witness ==
    /\ pc = "create_loop"
    /\ idx = 1
    /\ calls = << >>
    /\ Undisturbed
    /\ Len(listed) > PageSize

\* the fingerprint of what a create call carries
CallFp(c) ==
    ExchangeFingerprint([ start |-> c.arg.start, end |-> c.arg.end,
                          subject |-> c.arg.subject,
                          text_body |-> c.arg.description ], tz)

\* the last of the events the source returned that has fingerprint f
LastOf(f) ==
    LET evs == ExchangeEvents(source)
    IN  evs[CHOOSE i \in 1..Len(evs) :
              /\ ExchangeFingerprint(evs[i], tz) = f
              /\ \A j \in (i + 1)..Len(evs) : ExchangeFingerprint(evs[j], tz) # f]

\* the source dict has one entry for each fingerprint of the events that
\* the source returned, holding the last of them in list order
LastWins ==
    \A f \in SourceFps(ExchangeEvents(source), tz) :
        /\ Cardinality({ i \in 1..Len(source_events) : source_events[i][1] = f }) = 1
        /\ DictGet(source_events, f) = LastOf(f)

\* no two create calls of the cycle are for one fingerprint
CreatedOnce ==
    \A i, j \in 1..Len(calls) :
        (i # j /\ calls[i].op = "create" /\ calls[j].op = "create")
            => CallFp(calls[i]) # CallFp(calls[j])

\* C19: whatever events of the source share a fingerprint, the source dict
\* has exactly one entry for it, the last of them in list order, and a cycle
\* makes at most one create call for it.
C19_Collision ==
    /\ pc = "fetch_target" => LastWins
    /\ CycleOver => CreatedOnce

\* two events of the source that differ share a fingerprint that the target
\* lacked; the cycle has returned after one create call, which carries the
\* subject of the second event
C19_Witness ==
    /\ result = "ok"
    /\ pc = "sched"
    /\ Len(source) = 2
    /\ source[1].subject # source[2].subject
    /\ ExchangeFingerprint(source[1], tz) = ExchangeFingerprint(source[2], tz)
    /\ Len(calls) = 1
    /\ calls[1].op = "create"
    /\ calls[1].arg.subject = source[2].subject

\* C20: a cycle's window runs from 7 days before to 28 days after the hour
\* it started at; both providers are asked for exactly that span of time,
\* whatever the host's offset from UTC; and the daily views asked of the
\* source follow one another without a gap from the start of the window to
\* its end.
C20_SyncWindow ==
    result # "none" =>
        LET views == ExchangeViews(window.start, window.end, tz)
            list  == GoogleList(window.start, window.end, tz)
            from  == window.now - PAST_EVENTS * HoursPerDay
            to    == window.now + FUTURE_EVENTS * HoursPerDay
        IN  /\ window.start = from
            /\ window.end = to
            /\ \A k \in 1..(Len(views) - 1) : views[k].end = views[k + 1].start
            /\ \A k \in 1..Len(views) : views[k].start.t < views[k].end.t
            /\ views[1].start.t = list.timeMin.t
            /\ views[Len(views)].end.t = list.timeMax.t
            /\ list.timeMin.t = from
            /\ list.timeMax.t = to

\* C21: in a cycle the source is fetched before the target, both fetches are
\* over before the first create or delete call, and no create call follows a
\* delete call.
C21_CycleOrder ==
    /\ pc = "fetch_source" => calls = << >> /\ "google_fetched" \notin log
    /\ "google_fetched" \in log => "o365_fetched" \in log
    /\ pc = "fetch_target" => calls = << >>
    /\ calls # << >> => { "o365_fetched", "google_fetched" } \subseteq log
    /\ \A i \in 1..(Len(calls) - 1) :
         calls[i].op = "delete" => calls[i + 1].op = "delete"

\* a cycle that returned made a create call and then a delete call
C21_Witness ==
    /\ pc = "sched"
    /\ result = "ok"
    /\ Len(calls) >= 2
    /\ calls[1].op = "create"
    /\ calls[Len(calls)].op = "delete"

\* the thread is inside run()
InRun == pc \in { "fetch_source", "fetch_target", "create_loop", "delete_loop" }

\* C22: the queue of the scheduler never holds more than one event:
\* periodic() is entered with an empty queue and has put exactly one
\* follow-up into it when run() starts, and that one is all the queue holds
\* while run() executes, however long, and while the scheduler waits.
C22_QueueAtMostOne ==
    /\ Len(queue) <= 1
    /\ pc = "periodic" => queue = << >>
    /\ (InRun \/ pc = "sched") => Len(queue) = 1

\* a second cycle is running late, with its follow-up due
C22_Witness ==
    /\ InRun
    /\ prevOk
    /\ elapsed > SYNC_INTERVAL_SEC
    /\ queue = << 0 >>

\* the download() calls of the current cycle, in order
YtDownloads == SelectSeq(yt.calls, LAMBDA c : c.op = "download")

\* the items of the current cycle that the for loop has not finished
YtPending == { yt.items[k] : k \in yt.i..Len(yt.items) }

YtInPlaylist(item) == \E k \in 1..Len(yt.playlist) : yt.playlist[k] = item

\* C23: a delete call for a playlist item directly follows a download() of
\* that item that returned; the downloads of a cycle follow the order of the
\* fetched list; when a download fails the thread ends, and the failed item and
\* all later items of the list are still in the playlist, with no delete call
\* issued for any of them.
C23_DeleteAfterDownload ==
    /\ \A k \in 1..Len(yt.calls) :
         yt.calls[k].op = "delete" =>
           /\ k > 1
           /\ yt.calls[k - 1].op = "download"
           /\ yt.calls[k - 1].item = yt.calls[k].item
           /\ yt.calls[k - 1].ok
    /\ Len(YtDownloads) <= Len(yt.items)
    /\ \A n \in 1..Len(YtDownloads) : YtDownloads[n].item = yt.items[n]
    /\ (yt.pc = "dead" /\ yt.result = "download") =>
         /\ yt.i <= Len(yt.items)
         /\ \A item \in YtPending :
              /\ YtInPlaylist(item)
              /\ \A k \in 1..Len(yt.calls) :
                   ~ (yt.calls[k].op = "delete" /\ yt.calls[k].item.id = item.id)

\* the download of the second item failed after the first item was downloaded
\* and deleted
C23_Witness ==
    /\ yt.pc = "dead"
    /\ yt.result = "download"
    /\ yt.i = 2
    /\ Len(yt.items) = 2
    /\ Len(yt.calls) = 3
    /\ yt.calls[2].op = "delete"
    /\ yt.calls[2].ok
    /\ ~ YtInPlaylist(yt.items[1])

\* login() found no refresh token, or its refresh attempt raised RefreshError
OauthMustAuthorize == ~ Truthy(oauth.stored) \/ oauth.refresh_error

\* the refresh token in the config file
OauthPersisted == ConfigGet(oauth.file, "refresh_token")

\* C24: login() enters authorize() only when no refresh token is stored or
\* the refresh attempt raised RefreshError, and a login() that returned in
\* either of these cases did enter it; when login() has returned, the refresh
\* token in the config file is the refresh token of the returned credentials.
C24_LoginPersists ==
    /\ oauth.authorized => OauthMustAuthorize
    /\ oauth.pc = "returned" =>
         /\ OauthMustAuthorize => oauth.authorized
         /\ oauth.credentials # None
         /\ OauthPersisted = oauth.credentials[1].refresh_token

\* a stored token was refused, authorize() gave another one, login() returned
C24_Witness ==
    /\ oauth.pc = "returned"
    /\ oauth.refresh_error
    /\ oauth.authorized
    /\ oauth.stored = Some(Token(1))
    /\ oauth.credentials = Some([ refresh_token |-> Some(Token(2)) ])
    /\ OauthPersisted = Some(Token(2))
====
